---- MODULE Spec2Model ----
(***************************************************************************)
(* The two batch scripts of the repository and the three files they share. *)
(*   Edge_Server_AI_Trained.py          : load array, split, build, compile,*)
(*                                        fit, save, print                  *)
(*   Edge_Server_AI_CONVERT_to_TFlite.py: load model, configure converter,  *)
(*                                        convert, write bytes, print       *)
(* A file is <<>> when it does not exist and <<content>> when it does.      *)
(* An array is its shape [rows, cols]; a row is its 0-based index.          *)
(***************************************************************************)
EXTENDS Integers, Sequences, FiniteSets, TLC

\* ---------------------------------------------------------------- bounds
MaxRows == 2
MaxDim == 2
MaxEntropy == 1

\* ------------------------------------------------------ program constants
Epochs == 50
BatchSize == 64
RandomState == 42
TestSizeNum == 1
TestSizeDen == 5
RepSamples == 100

H5Path == "models/autoencoder.h5"
TflitePath == "models/autoencoder.tflite"
SavedMsg == "Saved Keras model -> models/autoencoder.h5"
WroteMsg == "Wrote models/autoencoder.tflite"

HiddenWidths == <<64, 32, 16, 32, 64>>

\* ------------------------------------------------- the inputs enumerated
\* Row counts around the three places where the code's behaviour changes:
\* the empty and tiny arrays, one exactly full batch of training rows, and
\* the 100 rows the representative generator indexes.
FullBatchRows == (BatchSize * TestSizeDen) \div (TestSizeDen - TestSizeNum)
RowCounts ==
    (0 .. MaxRows) \cup {FullBatchRows}
        \cup {RepSamples - 1 + k : k \in 0 .. MaxRows}
Shapes == [rows : RowCounts, cols : 1 .. MaxDim]

NoFile == <<>>
Exists(f) == f # <<>>
Content(f) == f[1]

Min(a, b) == IF a < b THEN a ELSE b
Range(s) == {s[i] : i \in 1 .. Len(s)}
CeilDiv(a, b) == (a + b - 1) \div b

\* ------------------------------------------------------------ train_test_split
\* check_random_state(seed): an integer seed fixes the generator; without a
\* seed the generator is seeded from the entropy of the process.
check_random_state(random_state, entropy) ==
    IF random_state = -1 THEN entropy ELSE random_state

\* rng.permutation(n): a bijection on 0 .. n-1 that the generator state alone
\* determines (here the rotation by that state).
permutation(rng, n) == [i \in 1 .. n |-> (i - 1 + rng) % n]

train_test_split_unseeded(n, random_state, entropy) ==
    LET n_test == CeilDiv(n * TestSizeNum, TestSizeDen)
        n_train == n - n_test
        p == permutation(check_random_state(-1, entropy), n)
    IN  IF n_train = 0
        THEN [ok |-> FALSE, train |-> <<>>, test |-> <<>>]
        ELSE [ok |-> TRUE,
              train |-> SubSeq(p, n_test + 1, n_test + n_train),
              test |-> SubSeq(p, 1, n_test)]

\* n_test = ceil(test_size * n), n_train = n - n_test, ValueError when the
\* train part would be empty; test rows are the head of the permutation and
\* train rows the rest.  (ceil of the double 0.2 * n equals ceil(n / 5) for
\* every n below 2^31.)
train_test_split(n, random_state, entropy) ==
    LET n_test == CeilDiv(n * TestSizeNum, TestSizeDen)
        n_train == n - n_test
        p == permutation(check_random_state(random_state, entropy), n)
    IN  IF n_train = 0
        THEN [ok |-> FALSE, train |-> <<>>, test |-> <<>>]
        ELSE [ok |-> TRUE,
              train |-> SubSeq(p, n_test + 1, n_test + n_train),
              test |-> SubSeq(p, 1, n_test)]

\* ------------------------------------------------------------------ the model
NoModel ==
    [input_dim |-> 0, widths |-> <<>>, output_dim |-> 0, compiled |-> FALSE,
     epochs |-> 0]

BuildModel_bottleneck(dim) ==
    [input_dim |-> dim,
     widths |-> <<64, 32, dim, 32, 64>> \o <<dim>>,
     output_dim |-> dim, compiled |-> FALSE, epochs |-> 0]

\* Input(shape=(input_dim,)), five hidden Dense layers, Dense(input_dim) out.
BuildModel(dim) ==
    [input_dim |-> dim,
     widths |-> HiddenWidths \o <<dim>>,
     output_dim |-> dim, compiled |-> FALSE, epochs |-> 0]

\* The sizes of the batches of one epoch over n rows.
BatchSizes_floor(n, bs) ==
    [k \in 1 .. (n \div bs) |-> bs]

BatchSizes(n, bs) ==
    [k \in 1 .. CeilDiv(n, bs) |-> IF k * bs <= n THEN bs ELSE n - (k - 1) * bs]

\* d[idx]: the rows of d that idx names, in that order.
Take(d, idx) == [rows |-> idx, cols |-> d.cols]

\* ------------------------------------------------------ representative_data_gen
\* data[lo:hi]: the rows lo .. hi-1 that exist.
Slice(d, lo, hi) ==
    [rows |-> [j \in 1 .. (Min(hi, d.rows) - Min(lo, d.rows)) |-> lo + j - 1],
     cols |-> d.cols]

\* The items the generator yields, in order: each a list of one array.
representative_data_gen(d) ==
    [k \in 1 .. RepSamples |-> <<Slice(d, k - 1, k)>>]

VARIABLES
    data_npy,        \* data/windows_features.npy
    h5,              \* models/autoencoder.h5
    tflite,          \* models/autoencoder.tflite
    proc,            \* the script running: "none", "train", "convert"
    pc,              \* the statement it is about to execute
    os_entropy,      \* entropy the training process was started with
    data,            \* train: the loaded array
    X_train, X_val,  \* train: row indices of the two parts
    model,           \* the model object of the running script
    fit,             \* train: the arguments fit is running with
    epoch,           \* train: epochs finished
    converter,       \* convert: the converter's configuration
    tflite_model,    \* convert: the converted bytes
    rep_items,       \* convert: the items the converter drew from the generator
    stdout,          \* lines printed by the running script
    trace,           \* statements the running script has completed
    writes,          \* paths the running script has written
    failed_at,       \* statement that raised in the running script, or ""
    start_fs,        \* the three files as they were when the script started
    prev_split,      \* the split of the latest earlier training run
    trained          \* some training run has saved its model

files == <<data_npy, h5, tflite>>
train_locals == <<data, X_train, X_val, fit, epoch>>
conv_locals == <<converter, tflite_model, rep_items>>
run_log == <<stdout, trace, writes, failed_at>>
ghosts == <<start_fs, prev_split, trained>>
vars ==
    <<data_npy, h5, tflite, proc, pc, os_entropy, data, X_train, X_val, model,
      fit, epoch, converter, tflite_model, rep_items, stdout, trace, writes,
      failed_at, start_fs, prev_split, trained>>

NoArray == [rows |-> 0, cols |-> 0]
NoRows == [rows |-> <<>>, cols |-> 0]
NoConverter == [model |-> NoModel, optimizations |-> <<>>, representative |-> FALSE]
NoSplit == [seen |-> FALSE, n |-> 0, train |-> <<>>, test |-> <<>>]
NoFit == [x |-> NoRows, y |-> NoRows, val_x |-> NoRows, val_y |-> NoRows, batches |-> <<>>]

Init ==
    /\ data_npy \in {<<s>> : s \in Shapes}
    /\ h5 = NoFile
    /\ tflite = NoFile
    /\ proc = "none"
    /\ pc = "idle"
    /\ os_entropy = 0
    /\ data = NoArray
    /\ X_train = NoRows
    /\ X_val = NoRows
    /\ model = NoModel
    /\ fit = NoFit
    /\ epoch = 0
    /\ converter = NoConverter
    /\ tflite_model = NoFile
    /\ rep_items = <<>>
    /\ stdout = <<>>
    /\ trace = <<>>
    /\ writes = <<>>
    /\ failed_at = ""
    /\ start_fs = <<NoFile, NoFile, NoFile>>
    /\ prev_split = NoSplit
    /\ trained = FALSE

\* ------------------------------------------------------------ process frame
\* No script is running: no locals, nothing printed, nothing done.
Cleared ==
    /\ data' = NoArray
    /\ X_train' = NoRows
    /\ X_val' = NoRows
    /\ model' = NoModel
    /\ fit' = NoFit
    /\ epoch' = 0
    /\ converter' = NoConverter
    /\ tflite_model' = NoFile
    /\ rep_items' = <<>>
    /\ stdout' = <<>>
    /\ trace' = <<>>
    /\ writes' = <<>>
    /\ failed_at' = ""
    /\ start_fs' = <<NoFile, NoFile, NoFile>>

\* An exception nobody catches: the traceback ends the script at this statement.
Raise(stmt) ==
    /\ pc' = "crashed"
    /\ failed_at' = stmt
    /\ UNCHANGED <<proc, os_entropy, stdout, trace, writes, ghosts, files>>

\* The statement returned: control moves to the next one.
Done(stmt, next) ==
    /\ pc' = next
    /\ trace' = Append(trace, stmt)
    /\ UNCHANGED <<proc, os_entropy, failed_at, start_fs, prev_split>>

\* -------------------------------------------------------------- environment
\* Somebody replaces or removes the feature array between two runs.
ReplaceData ==
    /\ proc = "none"
    /\ \E f \in {NoFile} \cup {<<s>> : s \in Shapes} :
          /\ f # data_npy
          /\ data_npy' = f
    /\ UNCHANGED <<h5, tflite, proc, pc, os_entropy, train_locals, model,
                   conv_locals, run_log, ghosts>>

StartTraining ==
    /\ proc = "none"
    /\ proc' = "train"
    /\ pc' = "load"
    /\ os_entropy' \in 0 .. MaxEntropy
    /\ start_fs' = files
    /\ UNCHANGED <<files, train_locals, model, conv_locals, run_log,
                   prev_split, trained>>

StartConversion ==
    /\ proc = "none"
    /\ proc' = "convert"
    /\ pc' = "load_model"
    /\ os_entropy' = 0
    /\ start_fs' = files
    /\ UNCHANGED <<files, train_locals, model, conv_locals, run_log,
                   prev_split, trained>>

\* ------------------------------------------------- Edge_Server_AI_Trained.py
\* data = np.load("data/windows_features.npy")
TrainLoad ==
    /\ proc = "train" /\ pc = "load"
    /\ Exists(data_npy)
    /\ data' = Content(data_npy)
    /\ Done("load", "split")
    /\ UNCHANGED <<files, X_train, X_val, fit, epoch, model, conv_locals,
                   stdout, writes, trained>>

TrainLoadMissing ==
    /\ proc = "train" /\ pc = "load"
    /\ ~Exists(data_npy)
    /\ Raise("load")
    /\ UNCHANGED <<train_locals, model, conv_locals>>

\* X_train, X_val = train_test_split(data, test_size=0.2, random_state=42)
TrainSplit ==
    /\ proc = "train" /\ pc = "split"
    /\ LET r == train_test_split(data.rows, RandomState, os_entropy)
       IN  /\ r.ok
           /\ X_train' = Take(data, r.train)
           /\ X_val' = Take(data, r.test)
    /\ Done("split", "build")
    /\ UNCHANGED <<files, data, fit, epoch, model, conv_locals, stdout, writes,
                   trained>>

TrainSplitError ==
    /\ proc = "train" /\ pc = "split"
    /\ ~train_test_split(data.rows, RandomState, os_entropy).ok
    /\ Raise("split")
    /\ UNCHANGED <<train_locals, model, conv_locals>>

\* input_dim = X_train.shape[1]; inp ... out; model = Model(inputs=inp, outputs=out)
TrainBuild ==
    /\ proc = "train" /\ pc = "build"
    /\ LET input_dim == X_train.cols
       IN  model' = BuildModel(input_dim)
    /\ Done("build", "compile")
    /\ UNCHANGED <<files, train_locals, conv_locals, stdout, writes, trained>>

\* model.compile(optimizer=Adam(1e-3), loss='mse')
TrainCompile ==
    /\ proc = "train" /\ pc = "compile"
    /\ model' = [model EXCEPT !.compiled = TRUE]
    /\ Done("compile", "fit")
    /\ UNCHANGED <<files, train_locals, conv_locals, stdout, writes, trained>>

TrainFitEpoch_on_all_rows ==
    /\ proc = "train" /\ pc = "fit"
    /\ epoch < Epochs
    /\ LET all == Take(data, X_train.rows \o X_val.rows)
       IN  fit' = [x |-> all, y |-> all, val_x |-> X_val, val_y |-> X_val,
                   batches |-> BatchSizes(Len(all.rows), BatchSize)]
    /\ epoch' = epoch + 1
    /\ model' = [model EXCEPT !.epochs = epoch + 1]
    /\ IF epoch + 1 = Epochs
       THEN Done("fit", "save")
       ELSE UNCHANGED <<proc, pc, os_entropy, trace, failed_at, start_fs,
                        prev_split>>
    /\ UNCHANGED <<files, data, X_train, X_val, conv_locals, stdout, writes,
                   trained>>

\* model.fit(X_train, X_train, validation_data=(X_val, X_val), epochs=50,
\*           batch_size=64): one epoch of the loop, which no callback can stop.
TrainFitEpoch ==
    /\ proc = "train" /\ pc = "fit"
    /\ epoch < Epochs
    /\ fit' = [x |-> X_train, y |-> X_train, val_x |-> X_val, val_y |-> X_val,
               batches |-> BatchSizes(Len(X_train.rows), BatchSize)]
    /\ epoch' = epoch + 1
    /\ model' = [model EXCEPT !.epochs = epoch + 1]
    /\ IF epoch + 1 = Epochs
       THEN Done("fit", "save")
       ELSE UNCHANGED <<proc, pc, os_entropy, trace, failed_at, start_fs,
                        prev_split>>
    /\ UNCHANGED <<files, data, X_train, X_val, conv_locals, stdout, writes,
                   trained>>

TrainFitError_swallowed ==
    /\ proc = "train" /\ pc = "fit"
    /\ pc' = "save"
    /\ failed_at' = "fit"
    /\ UNCHANGED <<proc, os_entropy, stdout, trace, writes, ghosts, files>>
    /\ UNCHANGED <<train_locals, model, conv_locals>>

\* The framework raises inside fit.
TrainFitError ==
    /\ proc = "train" /\ pc = "fit"
    /\ Raise("fit")
    /\ UNCHANGED <<train_locals, model, conv_locals>>

TrainSave_after_print ==
    /\ proc = "train" /\ pc = "save"
    /\ h5' = <<model>>
    /\ writes' = Append(writes, H5Path)
    /\ stdout' = Append(stdout, SavedMsg)
    /\ trained' = TRUE
    /\ pc' = "done"
    /\ trace' = trace \o <<"print", "save">>
    /\ UNCHANGED <<proc, os_entropy, failed_at, start_fs, prev_split>>
    /\ UNCHANGED <<data_npy, tflite, train_locals, model, conv_locals>>

\* model.save("models/autoencoder.h5")
TrainSave ==
    /\ proc = "train" /\ pc = "save"
    /\ h5' = <<model>>
    /\ writes' = Append(writes, H5Path)
    /\ trained' = TRUE
    /\ Done("save", "print")
    /\ UNCHANGED <<data_npy, tflite, train_locals, model, conv_locals, stdout>>

\* print("Saved Keras model -> models/autoencoder.h5")
TrainPrint ==
    /\ proc = "train" /\ pc = "print"
    /\ stdout' = Append(stdout, SavedMsg)
    /\ Done("print", "done")
    /\ UNCHANGED <<files, train_locals, model, conv_locals, writes, trained>>

\* The interpreter exits, normally or with the traceback.
TrainExit ==
    /\ proc = "train" /\ pc \in {"done", "crashed"}
    /\ proc' = "none"
    /\ pc' = "idle"
    /\ prev_split' =
          IF "split" \in Range(trace)
          THEN [seen |-> TRUE, n |-> data.rows, train |-> X_train.rows,
                test |-> X_val.rows]
          ELSE prev_split
    /\ os_entropy' = 0
    /\ Cleared
    /\ UNCHANGED <<files, trained>>

\* --------------------------------------- Edge_Server_AI_CONVERT_to_TFlite.py
ConvLoadModel_default ==
    /\ proc = "convert" /\ pc = "load_model"
    /\ model' = IF Exists(h5) THEN Content(h5) ELSE BuildModel(1)
    /\ Done("load_model", "configure")
    /\ UNCHANGED <<files, train_locals, conv_locals, stdout, writes, trained>>

\* model = tf.keras.models.load_model("models/autoencoder.h5")
ConvLoadModel ==
    /\ proc = "convert" /\ pc = "load_model"
    /\ Exists(h5)
    /\ model' = Content(h5)
    /\ Done("load_model", "configure")
    /\ UNCHANGED <<files, train_locals, conv_locals, stdout, writes, trained>>

ConvLoadModelMissing ==
    /\ proc = "convert" /\ pc = "load_model"
    /\ ~Exists(h5)
    /\ Raise("load_model")
    /\ UNCHANGED <<train_locals, model, conv_locals>>

\* converter = TFLiteConverter.from_keras_model(model);
\* converter.optimizations = [DEFAULT];
\* converter.representative_dataset = representative_data_gen
ConvConfigure ==
    /\ proc = "convert" /\ pc = "configure"
    /\ converter' = [model |-> model, optimizations |-> <<"DEFAULT">>,
                     representative |-> TRUE]
    /\ Done("configure", "convert")
    /\ UNCHANGED <<files, train_locals, model, tflite_model, rep_items, stdout,
                   writes, trained>>

CalibrationAccepts_any(m, d) == TRUE

\* The framework's validation of a calibration sample against the model input.
CalibrationAccepts(m, d) == d.cols = m.input_dim

\* tflite_model = converter.convert(): calibration draws the generator dry,
\* then the quantized bytes are produced.
ConvConvert ==
    /\ proc = "convert" /\ pc = "convert"
    /\ Exists(data_npy)
    /\ CalibrationAccepts(converter.model, Content(data_npy))
    /\ rep_items' = representative_data_gen(Content(data_npy))
    /\ tflite_model' = <<[input_dim |-> converter.model.input_dim,
                          output_dim |-> converter.model.output_dim,
                          calibrated_on |-> Content(data_npy).cols]>>
    /\ Done("convert", "write")
    /\ UNCHANGED <<files, train_locals, model, converter, stdout, writes, trained>>

\* np.load inside the generator finds no file.
ConvConvertNoData ==
    /\ proc = "convert" /\ pc = "convert"
    /\ ~Exists(data_npy)
    /\ Raise("convert")
    /\ UNCHANGED <<train_locals, model, conv_locals>>

\* The first sample does not fit the model's input.
ConvConvertShapeError ==
    /\ proc = "convert" /\ pc = "convert"
    /\ Exists(data_npy)
    /\ ~CalibrationAccepts(converter.model, Content(data_npy))
    /\ Raise("convert")
    /\ UNCHANGED <<train_locals, model, conv_locals>>

\* The framework raises inside convert for a reason of its own.
ConvConvertError ==
    /\ proc = "convert" /\ pc = "convert"
    /\ Raise("convert")
    /\ UNCHANGED <<train_locals, model, conv_locals>>

ConvWrite_h5_path ==
    /\ proc = "convert" /\ pc = "write"
    /\ h5' = tflite_model
    /\ writes' = Append(writes, H5Path)
    /\ Done("write", "print")
    /\ UNCHANGED <<data_npy, tflite, train_locals, model, conv_locals, stdout,
                   trained>>

\* open("models/autoencoder.tflite", "wb").write(tflite_model)
ConvWrite ==
    /\ proc = "convert" /\ pc = "write"
    /\ tflite' = tflite_model
    /\ writes' = Append(writes, TflitePath)
    /\ Done("write", "print")
    /\ UNCHANGED <<data_npy, h5, train_locals, model, conv_locals, stdout,
                   trained>>

\* print("Wrote models/autoencoder.tflite")
ConvPrint ==
    /\ proc = "convert" /\ pc = "print"
    /\ stdout' = Append(stdout, WroteMsg)
    /\ Done("print", "done")
    /\ UNCHANGED <<files, train_locals, model, conv_locals, writes, trained>>

ConvExit ==
    /\ proc = "convert" /\ pc \in {"done", "crashed"}
    /\ proc' = "none"
    /\ pc' = "idle"
    /\ os_entropy' = 0
    /\ Cleared
    /\ UNCHANGED <<files, prev_split, trained>>

Next ==
    \/ ReplaceData
    \/ StartTraining
    \/ StartConversion
    \/ TrainLoad
    \/ TrainLoadMissing
    \/ TrainSplit
    \/ TrainSplitError
    \/ TrainBuild
    \/ TrainCompile
    \/ TrainFitEpoch
    \/ TrainFitError
    \/ TrainSave
    \/ TrainPrint
    \/ TrainExit
    \/ ConvLoadModel
    \/ ConvLoadModelMissing
    \/ ConvConfigure
    \/ ConvConvert
    \/ ConvConvertNoData
    \/ ConvConvertShapeError
    \/ ConvConvertError
    \/ ConvWrite
    \/ ConvPrint
    \/ ConvExit

Spec == Init /\ [][Next]_vars

\* ===================================================================== claims
\* The statement orders the properties below compare a run against.
TrainProgram == <<"load", "split", "build", "compile", "fit", "save", "print">>
ConvProgram == <<"load_model", "configure", "convert", "write", "print">>
Program == IF proc = "train" THEN TrainProgram ELSE ConvProgram

IsPrefix(s, t) == Len(s) <= Len(t) /\ s = SubSeq(t, 1, Len(s))
Did(stmt) == stmt \in Range(trace)
NoDup(s) == Cardinality(Range(s)) = Len(s)

RECURSIVE Sum(_)
Sum(s) == IF s = <<>> THEN 0 ELSE s[1] + Sum(Tail(s))

\* C1: the quantized artifact exists only once the model artifact has been
\* written by a completed training run; a conversion run started before any
\* training run has saved fails at load_model, its first statement, having
\* completed no statement and written nothing.
C1_ConversionNeedsTraining ==
    /\ Exists(tflite) => (Exists(h5) /\ trained)
    /\ (proc = "convert" /\ Did("write")) => (trained /\ Exists(start_fs[2]))
    /\ (proc = "convert" /\ ~trained /\ pc # "load_model") =>
          /\ pc = "crashed"
          /\ failed_at = "load_model"
          /\ trace = <<>>
          /\ writes = <<>>
          /\ files = start_fs

C1_Witness ==
    /\ proc = "convert" /\ pc = "done"
    /\ Exists(tflite) /\ ~Exists(start_fs[3])
    /\ trained

\* C2: a statement that raises (array missing, model file missing, split or
\* shape error, framework error in fit or convert) ends the script there: no
\* later statement has run, the output files are what they were when the
\* script started, and nothing was printed.
C2_FailureStopsScript ==
    failed_at # "" =>
        /\ pc = "crashed"
        /\ failed_at \in {"load", "split", "fit", "load_model", "convert"}
        /\ IsPrefix(trace, Program)
        /\ Len(trace) < Len(Program) /\ Program[Len(trace) + 1] = failed_at
        /\ writes = <<>>
        /\ h5 = start_fs[2]
        /\ tflite = start_fs[3]
        /\ stdout = <<>>

C2_Witness ==
    /\ proc = "train" /\ failed_at = "fit" /\ epoch > 0
    /\ Exists(h5) /\ Content(h5).input_dim # model.input_dim

\* C3: a training run writes only models/autoencoder.h5 and a conversion run
\* only models/autoencoder.tflite, once each; no run changes the feature
\* array, a training run leaves the tflite file and a conversion run the h5
\* file as they were.
C3_OnlyOwnOutputWritten ==
    /\ proc = "train" =>
          /\ Range(writes) \subseteq {"models/autoencoder.h5"}
          /\ Len(writes) <= 1
          /\ data_npy = start_fs[1]
          /\ tflite = start_fs[3]
          /\ writes = <<>> => h5 = start_fs[2]
    /\ proc = "convert" =>
          /\ Range(writes) \subseteq {"models/autoencoder.tflite"}
          /\ Len(writes) <= 1
          /\ data_npy = start_fs[1]
          /\ h5 = start_fs[2]
          /\ writes = <<>> => tflite = start_fs[3]
    /\ pc = "done" => Len(writes) = 1

C3_Witness ==
    /\ proc = "convert" /\ pc = "done"
    /\ writes = <<"models/autoencoder.tflite">>
    /\ Exists(h5) /\ Exists(data_npy)

\* C4 as stated: the network built has exactly the five layers of widths
\* 64, 32, 16, 32, 64, whatever the array's rows and columns.
C4_Original ==
    (proc = "train" /\ Did("build")) => model.widths = <<64, 32, 16, 32, 64>>

\* C4 amended: the network built has six Dense layers; the first five have
\* the widths 64, 32, 16, 32, 64 whatever the array's rows and columns, and
\* the sixth, the output layer, has the width of the feature dimension.
C4_HiddenWidthsFixed ==
    (proc = "train" /\ Did("build")) =>
        /\ Len(model.widths) = 6
        /\ SubSeq(model.widths, 1, 5) = <<64, 32, 16, 32, 64>>
        /\ model.widths[6] = data.cols

C4_Witness ==
    /\ proc = "train" /\ Did("build")
    /\ data.cols = 2 /\ data.rows > 64

\* C5: a training run that gets past fit has run exactly 50 epochs, each of
\* ceil(|X_train| / 64) batches of at most 64 rows covering X_train; the
\* model is saved once, only after the 50th epoch, and fit is not left before.
C5_FiftyEpochsThenOneSave ==
    proc = "train" =>
        /\ epoch <= 50
        /\ Did("fit") <=> (epoch = 50)
        /\ pc \in {"save", "print", "done"} => (epoch = 50 /\ model.epochs = 50)
        /\ epoch > 0 =>
              LET n == Len(X_train.rows)
              IN  /\ Len(fit.batches) = (n + 63) \div 64
                  /\ \A k \in 1 .. Len(fit.batches) :
                        fit.batches[k] >= 1 /\ fit.batches[k] <= 64
                  /\ Sum(fit.batches) = n
        /\ writes # <<>> => (epoch = 50 /\ Did("save") /\ Content(h5).epochs = 50)
        /\ pc \in {"print", "done"} => writes = <<"models/autoencoder.h5">>

C5_Witness ==
    /\ proc = "train" /\ pc = "done"
    /\ Len(fit.batches) = 2 /\ fit.batches[2] < 64

C7_ProgramOrder ==
    proc # "none" =>
        /\ IsPrefix(trace, Program)
        /\ NoDup(trace)
        /\ pc \notin {"done", "crashed"} => pc = Program[Len(trace) + 1]
        /\ pc = "done" => trace = Program
        /\ Len(stdout) <= 1
        /\ stdout # <<>> =>
              IF proc = "train"
              THEN /\ stdout = <<"Saved Keras model -> models/autoencoder.h5">>
                   /\ Did("save") /\ h5 = <<model>>
              ELSE /\ stdout = <<"Wrote models/autoencoder.tflite">>
                   /\ Did("write") /\ tflite = tflite_model

C7_Witness ==
    /\ proc = "train" /\ pc = "done"
    /\ stdout = <<"Saved Keras model -> models/autoencoder.h5">>

\* C8: for an array of any number N >= 1 of rows the generator yields exactly
\* 100 items, the i-th being a list of one (1, feature_dim) array: row i.
C8_RepresentativeItems ==
    (proc = "convert" /\ Did("convert") /\ Content(data_npy).rows >= 1) =>
        /\ Len(rep_items) = 100
        /\ \A i \in 0 .. 99 :
              rep_items[i + 1] = <<[rows |-> <<i>>, cols |-> Content(data_npy).cols]>>

\* C9: for N >= 2 rows the split succeeds and is a partition of the row
\* indices into a validation part of ceil(N / 5) rows and a training part of
\* the rest, both non-empty; two runs over arrays of the same N assign the
\* same rows to the same parts.
C9_SplitPartition ==
    /\ (proc = "train" /\ failed_at = "split") => data.rows < 2
    /\ (proc = "train" /\ Did("split")) =>
          LET N == data.rows
              tr == X_train.rows
              va == X_val.rows
          IN  /\ N >= 2
              /\ Range(tr) \cup Range(va) = 0 .. N - 1
              /\ Range(tr) \cap Range(va) = {}
              /\ NoDup(tr) /\ NoDup(va)
              /\ Len(va) = (N + 4) \div 5
              /\ Len(tr) = N - Len(va)
              /\ Len(tr) >= 1 /\ Len(va) >= 1
              /\ (prev_split.seen /\ prev_split.n = N) =>
                    (prev_split.train = tr /\ prev_split.test = va)

C9_Witness ==
    /\ proc = "train" /\ Did("split")
    /\ prev_split.seen /\ prev_split.n = data.rows
    /\ data.rows > 5 /\ os_entropy = 1

\* C10: the model built, and the one saved, has input and output width equal
\* to the feature dimension d >= 1; fit is given X_train as input and target
\* and X_val as validation input and target, each of the model's output
\* width, and no row of X_val is among the training rows.
C10_AutoencoderWidths ==
    /\ (proc = "train" /\ Did("build")) =>
          /\ data.cols >= 1
          /\ model.input_dim = data.cols
          /\ model.output_dim = data.cols
    /\ (proc = "train" /\ epoch > 0) =>
          /\ fit.x = X_train /\ fit.y = X_train
          /\ fit.val_x = X_val /\ fit.val_y = X_val
          /\ fit.x.cols = model.input_dim
          /\ fit.y.cols = model.output_dim
          /\ fit.val_y.cols = model.output_dim
          /\ Range(fit.x.rows) \cap Range(X_val.rows) = {}
    /\ Exists(h5) => Content(h5).input_dim = Content(h5).output_dim

C10_Witness ==
    /\ proc = "train" /\ Did("save")
    /\ h5 = <<model>> /\ model.output_dim = 2
    /\ Len(X_val.rows) > 1

====
